---------------------------- MODULE Spec2Model ----------------------------
(* BabySchlaf-Sync: the family registry, the device snapshots and the     *)
(* entry synchronizer of src/server.js, as a state machine over the three *)
(* SQLite tables.  Every request handler is synchronous (better-sqlite3), *)
(* so one handler is one step.                                            *)
EXTENDS Integers, Sequences, FiniteSets, TLC

VARIABLES families, sync_data, entries, clock, res, hist, client

vars == <<families, sync_data, entries, clock, res, hist, client>>

tables == <<families, sync_data, entries>>

-----------------------------------------------------------------------------
(* Bounds of the model.                                                    *)

\* the server clock (seconds) runs from 1 to MaxClock
MaxClock == 2

\* number of push requests that pass the family check
MaxPushes == 2

-----------------------------------------------------------------------------
(* JSON values.  An optional field is <<>> when the request leaves it out  *)
(* and <<v>> when it carries v; _deleted carries the text of its literal.  *)

None == <<>>

Some(v) == <<v>>

\* !code: a family code is a sequence of characters, <<>> when missing or ""
Missing(code) == Len(code) = 0

\* !device_id: "" stands for the missing and for the empty device_id
NoDevice(device_id) == device_id = ""

\* e._deleted ? 1 : 0
TruthyLit(d) == d \notin {"absent", "false", "0", "null"}

\* x || dflt for an optional number: undefined and 0 are falsy
OrNum(x, dflt) == IF x = None \/ x[1] = 0 THEN dflt ELSE x[1]

\* x || dflt for an optional array: every array, also [], is truthy
OrList(x, dflt) == IF x = None THEN dflt ELSE x[1]

\* JSON.stringify / JSON.parse: the column holds text, not the object
JSONstringify(v) == <<"json", v>>

JSONparse(s) == s[2]

-----------------------------------------------------------------------------
(* Family codes.                                                           *)

chars == <<"A","B","C","D","E","F","G","H","J","K","L","M","N","P","Q","R",
           "S","T","U","V","W","X","Y","Z","2","3","4","5","6","7","8","9">>

CodeLen == 6

\* the draws of crypto.randomInt the model follows
CodePool == { <<"A","B","2","3","C","D">>, <<"K","7","M","P","Q","9">> }

lowerAZ == <<"a","b","c","d","e","f","g","h","i","j","k","l","m",
             "n","o","p","q","r","s","t","u","v","w","x","y","z">>

upperAZ == <<"A","B","C","D","E","F","G","H","I","J","K","L","M",
             "N","O","P","Q","R","S","T","U","V","W","X","Y","Z">>

\* String.prototype.toUpperCase, one character
upperChar(ch) ==
    IF \E i \in 1..Len(lowerAZ) : lowerAZ[i] = ch
    THEN upperAZ[CHOOSE i \in 1..Len(lowerAZ) : lowerAZ[i] = ch]
    ELSE ch

\* a lookup by the code as typed
asTyped(s) == s

toUpperCase(s) == [i \in 1..Len(s) |-> upperChar(s[i])]

\* codes a client may send: the stored ones, one in lower case, one of the
\* wrong length, and the missing code
ReqCodes == CodePool \cup { <<"a","b","2","3","c","d">>, <<"A","B">>, <<>> }

\* codes a client may join with: those, and two in mixed case
JoinCodes ==
    ReqCodes \cup { <<"A","b","2","3","c","D">>, <<"k","7","M","p","Q","9">> }

-----------------------------------------------------------------------------
(* Request inputs.                                                         *)

Devices == {"d1", "d2"}

ReqDevices == Devices \cup {""}

\* babies: left out, or a list of profiles
ReqBabies == {None, Some(<<"Mia">>)}

\* a client timestamp well above every server time of the model
FarTs == MaxClock + 3

ReqTs == {None, Some(-1), Some(0), Some(FarTs)}

ReqDeleted == {"absent", "true", "1"}

Entry(id, deleted, ts) ==
    [id |-> id, _deleted |-> deleted, _ts |-> ts, note |-> "x"]

\* entry objects of a push batch: with an id, and with at most one of
\* _deleted and _ts
GoodEntries ==
    {Entry(Some("e1"), "absent", ts) : ts \in ReqTs}
      \cup {Entry(Some("e1"), d, None) : d \in ReqDeleted}
      \cup {Entry(Some("e2"), "absent", None)}

\* an entry object without id
BadEntry == Entry(None, "absent", None)

\* the batches of a push: no entry, one entry, an entry followed by an
\* entry without id, the same id twice with two contents
ReqBatches ==
    {<<>>} \cup {<<e>> : e \in GoodEntries}
           \cup {<<Entry(Some("e2"), "absent", None), BadEntry>>,
                 <<Entry(Some("e2"), "absent", None), Entry(Some("e2"), "1", Some(-1))>>}

\* the family whose devices send every request body of the model
Home == <<"A","B","2","3","C","D">>

\* the bodies of the push requests to Home (and to the codes that are no
\* CodePool code): a request varies either its entry batch or its device
\* and babies
HomeRequests ==
    [device_id : {"d1"}, babies : {None}, entries : ReqBatches]
      \cup [device_id : ReqDevices, babies : ReqBabies, entries : {<<>>}]

\* the bodies of the push requests to the other family: the same device and
\* entry id as in Home, other contents
OtherRequests ==
    [device_id : {"d1"}, babies : {Some(<<"Noa">>)},
     entries : {<<Entry(Some("e1"), "absent", Some(1))>>,
                <<Entry(Some("e1"), "true", None)>>}]

PushRequests(code) ==
    IF code \in CodePool \ {Home} THEN OtherRequests ELSE HomeRequests

\* since: left out, or a number
ReqSince == {None} \cup {Some(n) : n \in {-2, -1, 0, 1, FarTs}}

-----------------------------------------------------------------------------
(* The store: three tables, each a function from its primary key to the    *)
(* other columns.                                                          *)

\* the lookup with the code normalised as in join
FamilyExistsAnyCase(code) == toUpperCase(code) \in DOMAIN families

\* SELECT 1 FROM families WHERE code = ?
FamilyExists(code) == code \in DOMAIN families

\* SELECT * FROM families WHERE code = ?: the row, or None when undefined
SelectFamily(code) ==
    IF code \in DOMAIN families
    THEN Some([code |-> code, created_at |-> families[code].created_at,
               last_sync |-> families[code].last_sync])
    ELSE None

\* INSERT INTO families (code) VALUES (?): both timestamps default to now
InsertFamily(fam, code, now) ==
    (code :> [created_at |-> now, last_sync |-> now]) @@ fam

\* UPDATE families SET last_sync = ? WHERE code = ?
UpdateLastSync(fam, code, now) ==
    [c \in DOMAIN fam |-> IF c = code THEN [fam[c] EXCEPT !.last_sync = now]
                                      ELSE fam[c]]

\* INSERT OR REPLACE INTO sync_data: the row of (code, device_id) is replaced
SaveSnapshot(sd, code, device_id, babies, now) ==
    (<<code, device_id>> :>
        [data |-> JSONstringify(OrList(babies, <<>>)), updated_at |-> now]) @@ sd

\* the row upsert.run writes for entry e
EntryRow(e, now) ==
    [data       |-> JSONstringify(e),
     deleted    |-> IF TruthyLit(e._deleted) THEN 1 ELSE 0,
     updated_at |-> OrNum(e._ts, now)]

\* upsert.run binds e.id: undefined cannot be bound, the statement throws
Throws(e) == e.id = None

\* upsert that keeps a stored row with a higher updated_at
upsertIfNewer(tbl, code, e, now) ==
    IF /\ <<code, e.id[1]>> \in DOMAIN tbl
       /\ tbl[<<code, e.id[1]>>].updated_at > EntryRow(e, now).updated_at
    THEN tbl
    ELSE (<<code, e.id[1]>> :> EntryRow(e, now)) @@ tbl

\* upsert that removes the row of an entry pushed with _deleted
upsertHardDelete(tbl, code, e, now) ==
    IF TruthyLit(e._deleted)
    THEN [k \in DOMAIN tbl \ {<<code, e.id[1]>>} |-> tbl[k]]
    ELSE (<<code, e.id[1]>> :> EntryRow(e, now)) @@ tbl

\* INSERT OR IGNORE: upsert that keeps a stored row
upsertIgnore(tbl, code, e, now) ==
    IF <<code, e.id[1]>> \in DOMAIN tbl THEN tbl
    ELSE (<<code, e.id[1]>> :> EntryRow(e, now)) @@ tbl

\* INSERT OR REPLACE INTO entries: the row of (code, e.id) is replaced
upsert(tbl, code, e, now) == (<<code, e.id[1]>> :> EntryRow(e, now)) @@ tbl

\* the body of the transaction function: the loop over items, up to the
\* first statement that throws
RECURSIVE runItems(_, _, _, _)
runItems(tbl, code, items, now) ==
    IF items = <<>> THEN [threw |-> FALSE, tbl |-> tbl]
    ELSE IF Throws(Head(items)) THEN [threw |-> TRUE, tbl |-> tbl]
    ELSE runItems(upsert(tbl, code, Head(items), now), code, Tail(items), now)

\* tx that keeps the rows written before the throw
txNoRollback(tbl, code, items, now) == runItems(tbl, code, items, now)

\* db.transaction: commit when the body returns, roll back when it throws
tx(tbl, code, items, now) ==
    LET r == runItems(tbl, code, items, now)
    IN  [threw |-> r.threw, tbl |-> IF r.threw THEN tbl ELSE r.tbl]

-----------------------------------------------------------------------------
(* Responses.                                                              *)

Response(op, status) ==
    [op |-> op, status |-> status, code |-> <<>>, device_id |-> "",
     synced |-> 0, since |-> None, entries |-> {}, devices |-> {},
     server_time |-> 0, last_sync |-> 0, ndevices |-> 0, nentries |-> 0,
     req |-> <<>>]

-----------------------------------------------------------------------------
(* History of the committed pushes, kept beside the store to state the     *)
(* claims: the number of pushes that passed the family check, and for each *)
(* entry key and each snapshot key what the last push that answered 200    *)
(* carried for it and when; and, while a push is being answered, its entry *)
(* batch and the updated_at of the entry rows it replaced.                 *)

\* the last entry of the batch with the given id
LastWithId(items, id) ==
    items[CHOOSE i \in 1..Len(items) :
             /\ items[i].id = Some(id)
             /\ \A j \in (i+1)..Len(items) : items[j].id # Some(id)]

BatchKeys(code, items) ==
    {<<code, items[i].id[1]>> : i \in {j \in 1..Len(items) : items[j].id # None}}

RecordPush(h, code, device_id, babies, items, now) ==
    [h EXCEPT
       !.lastPush = [k \in DOMAIN h.lastPush \cup BatchKeys(code, items) |->
                       IF k \in BatchKeys(code, items)
                       THEN [e |-> LastWithId(items, k[2]), at |-> now]
                       ELSE h.lastPush[k]],
       !.lastSnap = (<<code, device_id>> :> [babies |-> babies, at |-> now])
                       @@ h.lastSnap,
       !.replaced = [k \in BatchKeys(code, items) \cap DOMAIN entries |->
                       entries[k].updated_at]]

-----------------------------------------------------------------------------
(* Initial state: the tables as db.exec creates them in a fresh database.  *)

Init ==
    /\ families = <<>>
    /\ sync_data = <<>>
    /\ entries = <<>>
    /\ clock = 1
    /\ res = Response("none", 0)
    /\ hist = [npush |-> 0, lastPush |-> <<>>, lastSnap |-> <<>>,
               replaced |-> <<>>, batch |-> <<>>]
    /\ client = [since |-> None, view |-> <<>>]

-----------------------------------------------------------------------------
(* Date.now() moves on.                                                    *)

Tick ==
    /\ res.op = "none"
    /\ clock < MaxClock
    /\ clock' = clock + 1
    /\ UNCHANGED <<families, sync_data, entries, res, hist, client>>

-----------------------------------------------------------------------------
(* POST /api/family/create                                                 *)

\* genCode that returns its first draw
genCodeFirstDraw(code) == code \in CodePool

\* genCode: draw until the code is not in families
genCode(code) == code \in CodePool /\ ~FamilyExists(code)

Create ==
    \E code \in CodePool :
        /\ res.op = "none"
        /\ genCode(code)
        /\ families' = InsertFamily(families, code, clock)
        /\ res' = [Response("create", 200) EXCEPT !.code = code]
        /\ UNCHANGED <<sync_data, entries, clock, hist, client>>

-----------------------------------------------------------------------------
(* POST /api/family/join                                                   *)

Join ==
    \E code \in JoinCodes :
        /\ res.op = "none"
        /\ res' = IF Missing(code) \/ Len(code) # CodeLen
                  THEN [Response("join", 400) EXCEPT !.req = code]
                  ELSE IF SelectFamily(toUpperCase(code)) = None
                  THEN [Response("join", 404) EXCEPT !.req = code]
                  ELSE [Response("join", 200) EXCEPT
                          !.req = code,
                          !.code = SelectFamily(toUpperCase(code))[1].code]
        /\ UNCHANGED <<families, sync_data, entries, clock, hist, client>>

-----------------------------------------------------------------------------
(* POST /api/sync/push                                                     *)

\* the handler from the family check on; now is Date.now()/1000 at receipt
PushBody(code, device_id, babies, items, now) ==
    LET sd1 == SaveSnapshot(sync_data, code, device_id, babies, now)
        t   == IF Len(items) > 0 THEN tx(entries, code, items, now)
                                 ELSE [threw |-> FALSE, tbl |-> entries]
    IN  /\ sync_data' = sd1
        /\ entries' = t.tbl
        /\ IF t.threw
           THEN /\ families' = families
                /\ res' = [Response("push", 500) EXCEPT
                             !.code = code, !.device_id = device_id]
                /\ hist' = [hist EXCEPT !.npush = @ + 1, !.batch = items]
           ELSE /\ families' = UpdateLastSync(families, code, now)
                /\ res' = [Response("push", 200) EXCEPT
                             !.code = code, !.device_id = device_id,
                             !.synced = Len(items)]
                /\ hist' = [RecordPush(hist, code, device_id, babies, items, now)
                               EXCEPT !.npush = @ + 1, !.batch = items]

\* PushCheck without the family lookup
PushCheckNoLookup(code, device_id) ==
    IF Missing(code) \/ NoDevice(device_id) THEN 400 ELSE 0

\* the early returns of the handler: 400, 404, or 0 to go on
PushCheck(code, device_id) ==
    IF Missing(code) \/ NoDevice(device_id) THEN 400
    ELSE IF ~FamilyExists(code) THEN 404
    ELSE 0

Push ==
    \E code \in ReqCodes : \E r \in PushRequests(code) :
        /\ res.op = "none"
        /\ IF PushCheck(code, r.device_id) # 0
           THEN /\ res' = [Response("push", PushCheck(code, r.device_id)) EXCEPT
                             !.code = code, !.device_id = r.device_id]
                /\ UNCHANGED <<families, sync_data, entries, hist>>
           ELSE /\ hist.npush < MaxPushes
                /\ PushBody(code, r.device_id, r.babies, r.entries, clock)
        /\ UNCHANGED <<clock, client>>

-----------------------------------------------------------------------------
(* POST /api/sync/pull                                                     *)

\* SelectEntries with updated_at >= ?
SelectEntriesFromSince(code, sinceTs) ==
    {k \in DOMAIN entries : k[1] = code /\ entries[k].updated_at >= sinceTs}

\* SelectEntries that leaves out the rows dated after the server time
SelectEntriesUpToNow(code, sinceTs) ==
    {k \in DOMAIN entries : /\ k[1] = code
                            /\ entries[k].updated_at > sinceTs
                            /\ entries[k].updated_at <= clock}

\* SELECT data, deleted FROM entries WHERE family_code = ? AND updated_at > ?
SelectEntries(code, sinceTs) ==
    {k \in DOMAIN entries : k[1] = code /\ entries[k].updated_at > sinceTs}

\* parsed without the deleted column
parsedAsStored(row) == JSONparse(row.data)

\* entries.map(e => ...): the stored object, with _deleted true when deleted
parsed(row) ==
    LET d == JSONparse(row.data)
    IN  IF row.deleted # 0 THEN [d EXCEPT !._deleted = "true"] ELSE d

\* SelectDevices without the WHERE clause
SelectDevicesAll(code) == DOMAIN sync_data

\* SELECT device_id, data, updated_at FROM sync_data WHERE family_code = ?
SelectDevices(code) == {k \in DOMAIN sync_data : k[1] = code}

devices(code) ==
    {[device_id  |-> k[2],
      babies     |-> JSONparse(sync_data[k].data),
      updated_at |-> sync_data[k].updated_at] : k \in SelectDevices(code)}

PullResponse(code, since) ==
    IF Missing(code) THEN [Response("pull", 400) EXCEPT !.code = code]
    ELSE IF ~FamilyExists(code) THEN [Response("pull", 404) EXCEPT !.code = code]
    ELSE LET sinceTs == OrNum(since, 0)
         IN  [Response("pull", 200) EXCEPT
                !.code = code,
                !.since = since,
                !.entries = {parsed(entries[k]) : k \in SelectEntries(code, sinceTs)},
                !.devices = devices(code),
                !.server_time = clock]

\* Pull that notes the time of the pull in last_sync
PullTouchesFamily ==
    \E code \in ReqCodes, since \in ReqSince :
        /\ res.op = "none"
        /\ res' = PullResponse(code, since)
        /\ families' = IF FamilyExists(code)
                       THEN UpdateLastSync(families, code, clock)
                       ELSE families
        /\ UNCHANGED <<sync_data, entries, clock, hist, client>>

Pull ==
    \E code \in ReqCodes, since \in ReqSince :
        /\ res.op = "none"
        /\ res' = PullResponse(code, since)
        /\ UNCHANGED <<families, sync_data, entries, clock, hist, client>>

-----------------------------------------------------------------------------
(* GET /api/family/info/:code                                              *)

Info ==
    \E code \in ReqCodes :
        /\ res.op = "none"
        /\ res' = IF SelectFamily(code) = None
                  THEN [Response("info", 404) EXCEPT !.code = code]
                  ELSE [Response("info", 200) EXCEPT
                          !.code = code,
                          !.ndevices = Cardinality(SelectDevices(code)),
                          !.nentries = Cardinality({k \in DOMAIN entries :
                                         k[1] = code /\ entries[k].deleted = 0}),
                          !.last_sync = SelectFamily(code)[1].last_sync]
        /\ UNCHANGED <<families, sync_data, entries, clock, hist, client>>

-----------------------------------------------------------------------------

(* A device of Home that follows the protocol of the pull response: its    *)
(* first pull has since 0, every later one the server_time of the one      *)
(* before; it keeps the entries it received by id.                         *)

ClientPull ==
    /\ res.op = "none"
    /\ FamilyExists(Home)
    /\ LET r == PullResponse(Home, IF client.since = None THEN Some(0)
                                                         ELSE client.since)
           got == {e.id[1] : e \in r.entries}
       IN  /\ res' = r
           /\ client' =
                [since |-> Some(r.server_time),
                 view  |-> [i \in DOMAIN client.view \cup got |->
                              IF i \in got
                              THEN CHOOSE e \in r.entries : e.id = Some(i)
                              ELSE client.view[i]]]
    /\ UNCHANGED <<families, sync_data, entries, clock, hist>>

-----------------------------------------------------------------------------
(* res.json has sent the response: the event loop takes the next request.  *)

Sent ==
    /\ res.op # "none"
    /\ res' = Response("none", 0)
    /\ hist' = [hist EXCEPT !.replaced = <<>>, !.batch = <<>>]
    /\ UNCHANGED <<families, sync_data, entries, clock, client>>

-----------------------------------------------------------------------------

Next == Tick \/ Create \/ Join \/ Push \/ Pull \/ Info \/ Sent

Spec == Init /\ [][Next]_vars

\* the server with the device that pulls by watermark
NextSync == Tick \/ Create \/ Push \/ ClientPull \/ Sent

SyncSpec == Init /\ [][NextSync]_vars

-----------------------------------------------------------------------------
(* Properties.                                                             *)

\* the rows of a family
EntryKeys(code) == {k \in DOMAIN entries : k[1] = code}

\* the value of since a pull was sent with, 0 when it was left out
SinceOf(r) == IF r.since = None THEN 0 ELSE r.since[1]

PullOk == res.op = "pull" /\ res.status = 200

\* the entry ids of a pull response
PulledIds == {e.id[1] : e \in res.entries}

(* C1: a push that fails after the family check (here: an entry without id *)
(* makes the upsert throw) leaves the snapshot row, every entry row and    *)
(* last_sync as they were before the request.                              *)
C1_PushAtomic ==
    [][(res'.op = "push" /\ res'.status = 500) => UNCHANGED tables]_vars

(* C2, as stated: every push whose code is not the code of a stored family *)
(* answers 404 and leaves the three tables unchanged.                      *)
C2_UnknownCodeIs404 ==
    [][(res'.op = "push" /\ res'.code \notin DOMAIN families)
          => (res'.status = 404 /\ UNCHANGED tables)]_vars

(* C2, amended: every push whose code is not the code of a stored family   *)
(* leaves the three tables unchanged; it answers 404 when code and         *)
(* device_id are both present, and 400 when one of them is missing.        *)
C2_UnknownCodeWritesNothing ==
    [][(res'.op = "push" /\ res'.code \notin DOMAIN families)
          => /\ UNCHANGED tables
             /\ res'.status = IF Len(res'.code) = 0 \/ res'.device_id = ""
                              THEN 400 ELSE 404]_vars

\* a push to an unknown code has been answered 404 while rows are stored
C2_Witness ==
    /\ res.op = "push" /\ res.status = 404
    /\ res.code \notin DOMAIN families
    /\ DOMAIN entries # {} /\ DOMAIN sync_data # {}

(* C3: a pull of an existing family returns exactly the entries stored     *)
(* under that family whose updated_at is strictly greater than since.      *)
C3_PullStrictlyNewer ==
    PullOk =>
        /\ PulledIds = {k[2] : k \in {j \in EntryKeys(res.code) :
                                         entries[j].updated_at > SinceOf(res)}}
        /\ \A e \in res.entries :
              [e EXCEPT !._deleted = "-"] =
                 [JSONparse(entries[<<res.code, e.id[1]>>].data)
                     EXCEPT !._deleted = "-"]

\* a pull has returned an entry and has left out one whose updated_at
\* equals since
C3_Witness ==
    /\ PullOk
    /\ res.entries # {}
    /\ \E k \in EntryKeys(res.code) : entries[k].updated_at = SinceOf(res)

(* C4: after any sequence of successful pushes to a family, a pull with    *)
(* since 0 or without since returns every entry_id ever pushed to it.      *)
C4_FullPullReturnsAll ==
    (PullOk /\ SinceOf(res) = 0) =>
        \A k \in DOMAIN hist.lastPush : k[1] = res.code => k[2] \in PulledIds

(* C5: the device that pulls by watermark misses no update: every entry    *)
(* row of its family with updated_at at or below the device's watermark is *)
(* in the device's view in its stored state.  (The watermark never goes    *)
(* down, so a row at or below it is in no later pull of the device.)       *)
C5_NoUpdateMissed ==
    (res.op = "none" /\ client.since # None) =>
        \A k \in EntryKeys(Home) :
            entries[k].updated_at <= client.since[1]
              => /\ k[2] \in DOMAIN client.view
                 /\ client.view[k[2]] = parsed(entries[k])

(* C6: the row of (family, entry_id) holds the payload, the deleted flag   *)
(* and the updated_at of the last committed push that contained the       *)
(* entry_id, whatever updated_at the row had before; and the payload a     *)
(* pull returns for an entry_id is the one of that push.                   *)
C6_LastWriteWins ==
    /\ DOMAIN entries = DOMAIN hist.lastPush
    /\ PullOk =>
         \A e \in res.entries :
            [e EXCEPT !._deleted = "-"] =
               [hist.lastPush[<<res.code, e.id[1]>>].e EXCEPT !._deleted = "-"]
    /\ \A k \in DOMAIN hist.lastPush :
         LET p == hist.lastPush[k]
         IN  /\ JSONparse(entries[k].data) = p.e
             /\ (entries[k].deleted = 1) = (p.e._deleted \in {"true", "1"})
             /\ entries[k].updated_at =
                  IF p.e._ts = None \/ p.e._ts = Some(0) THEN p.at ELSE p.e._ts[1]

\* a push has replaced a row that had a higher updated_at
C6_Witness ==
    \E k \in DOMAIN hist.replaced : hist.replaced[k] > entries[k].updated_at

(* C7: a pull returns an entry with _deleted true exactly when the last    *)
(* push of that entry had a truthy _deleted, and it returns every such     *)
(* entry whose updated_at is above since.                                  *)
C7_TombstonesDelivered ==
    PullOk =>
        /\ \A e \in res.entries :
             (e._deleted = "true") =
                (hist.lastPush[<<res.code, e.id[1]>>].e._deleted \in {"true", "1"})
        /\ \A k \in DOMAIN hist.lastPush :
             (/\ k[1] = res.code
              /\ hist.lastPush[k].e._deleted \in {"true", "1"}
              /\ entries[k].updated_at > SinceOf(res))
                => \E e \in res.entries : e.id = Some(k[2]) /\ e._deleted = "true"

\* a pull has returned, as deleted, an entry pushed with _deleted 1
C7_Witness ==
    /\ PullOk
    /\ \E e \in res.entries :
         /\ e._deleted = "true"
         /\ hist.lastPush[<<res.code, e.id[1]>>].e._deleted = "1"

(* C8: an entry row that exists exists after every step.                   *)
C8_RowsNeverRemoved == [][DOMAIN entries \subseteq DOMAIN entries']_vars

\* a push with _deleted has replaced an existing row, which is now a tombstone
C8_Witness ==
    \E k \in DOMAIN hist.replaced : entries[k].deleted = 1

(* C9: every snapshot row and every entry row has the code of a stored     *)
(* family as its family_code.                                              *)
C9_RowsBelongToFamilies ==
    \A k \in DOMAIN sync_data \cup DOMAIN entries : k[1] \in DOMAIN families

\* both tables hold rows and a push with an unknown code has been refused
C9_Witness ==
    /\ DOMAIN sync_data # {} /\ DOMAIN entries # {}
    /\ res.op = "push" /\ res.status = 404 /\ Len(res.code) = CodeLen

(* C10: a pull returns one snapshot per device that has successfully       *)
(* pushed to the family, with the babies of that device's last successful  *)
(* push, an empty list when that push had none.                            *)
C10_SnapshotOfLastPush ==
    PullOk =>
        {[device_id |-> d.device_id, babies |-> d.babies] : d \in res.devices}
          = {[device_id |-> k[2],
              babies |-> IF hist.lastSnap[k].babies = None THEN <<>>
                         ELSE hist.lastSnap[k].babies[1]] :
                k \in {j \in DOMAIN hist.lastSnap : j[1] = res.code}}


(* C11: when the upsert of an entry of a push batch throws, no entry row   *)
(* is inserted or changed, also not for the entries before the failing one. *)
C11_BatchAllOrNothing ==
    [][(res'.op = "push" /\ res'.status = 500) => entries' = entries]_vars

\* a push has failed on its second entry and the row of its first entry,
\* which was not stored before, is not stored
C11_Witness ==
    /\ res.op = "push" /\ res.status = 500
    /\ Len(hist.batch) = 2
    /\ hist.batch[1].id # None
    /\ <<res.code, hist.batch[1].id[1]>> \notin DOMAIN entries

(* C12: a pull never observes a push half applied: every snapshot a pull   *)
(* returns was written by a push that was applied whole, snapshot, entry   *)
(* batch and last_sync (one that answered 200), at the time of that push.  *)
C12_PullSeesWholePushes ==
    PullOk =>
        \A d \in res.devices :
            /\ <<res.code, d.device_id>> \in DOMAIN hist.lastSnap
            /\ d.updated_at = hist.lastSnap[<<res.code, d.device_id>>].at

(* C13: create returns a code of 6 characters of the alphabet that is the  *)
(* code of no family stored at that time, inserts it and leaves the rows   *)
(* of the existing families as they are; no family row is ever removed, so *)
(* no later create returns the same code.                                  *)
C13_CreateReturnsFreshCode ==
    [][/\ DOMAIN families \subseteq DOMAIN families'
       /\ res'.op = "create" =>
            /\ Len(res'.code) = 6
            /\ \A i \in 1..Len(res'.code) :
                 \E j \in 1..Len(chars) : res'.code[i] = chars[j]
            /\ res'.code \notin DOMAIN families
            /\ DOMAIN families' = DOMAIN families \cup {res'.code}
            /\ \A c \in DOMAIN families : families'[c] = families[c]]_vars

\* a family has been created while another one was stored
C13_Witness == res.op = "create" /\ Cardinality(DOMAIN families) = 2

(* C14: a join with a string of length 6 that differs from a stored       *)
(* family code only in letter case answers 200 with the stored code.       *)
SameLetter(a, b) ==
    \/ a = b
    \/ \E i \in 1..Len(lowerAZ) : {a, b} = {lowerAZ[i], upperAZ[i]}

C14_JoinIgnoresCase ==
    (res.op = "join" /\ Len(res.req) = 6) =>
        \A c \in DOMAIN families :
            (\A i \in 1..6 : SameLetter(res.req[i], c[i])) =>
                res.status = 200 /\ res.code = c

\* a join with a code typed in another case than stored has been answered
C14_Witness ==
    /\ res.op = "join" /\ res.status = 200
    /\ res.req # res.code
    /\ res.code \in DOMAIN families

(* C15: a push to a family changes no family row, snapshot row or entry    *)
(* row of another family and adds none to it, and every entry and device   *)
(* snapshot a pull of a family returns is a row stored under that family.  *)
OthersKept(t, t2, code) ==
    /\ \A k \in DOMAIN t : k[1] # code => k \in DOMAIN t2 /\ t2[k] = t[k]
    /\ \A k \in DOMAIN t2 \ DOMAIN t : k[1] = code

C15_FamiliesIsolated ==
    [][/\ res'.op = "push" =>
            /\ \A c \in DOMAIN families :
                 c # res'.code => c \in DOMAIN families' /\ families'[c] = families[c]
            /\ DOMAIN families' = DOMAIN families
            /\ OthersKept(sync_data, sync_data', res'.code)
            /\ OthersKept(entries, entries', res'.code)
       /\ (res'.op = "pull" /\ res'.status = 200) =>
            /\ \A e \in res'.entries :
                 /\ e.id # None
                 /\ <<res'.code, e.id[1]>> \in DOMAIN entries'
                 /\ e = parsed(entries'[<<res'.code, e.id[1]>>])
            /\ \A d \in res'.devices :
                 /\ <<res'.code, d.device_id>> \in DOMAIN sync_data'
                 /\ d.babies =
                      JSONparse(sync_data'[<<res'.code, d.device_id>>].data)
                 /\ d.updated_at =
                      sync_data'[<<res'.code, d.device_id>>].updated_at]_vars

\* a push to one family has been stored while another family holds a row
\* with the same entry_id and a snapshot with the same device_id
C15_Witness ==
    /\ res.op = "push" /\ res.status = 200
    /\ \E k \in DOMAIN entries :
         k[1] # res.code /\ <<res.code, k[2]>> \in DOMAIN entries
    /\ \E k \in DOMAIN sync_data :
         k[1] # res.code /\ <<res.code, k[2]>> \in DOMAIN sync_data

(* C16: the row of an entry holds as updated_at the _ts of the last push   *)
(* of the entry when that push supplied one, whatever its value, and the   *)
(* server time at receipt of that push when it supplied none.              *)
C16_StoredTsIsSuppliedTs ==
    \A k \in DOMAIN hist.lastPush :
        LET p == hist.lastPush[k]
        IN  k \in DOMAIN entries /\
            entries[k].updated_at = IF p.e._ts # None THEN p.e._ts[1] ELSE p.at

(* C17: after a push whose batch holds an entry_id more than once, the     *)
(* row of that entry_id holds the payload, the deleted flag and the        *)
(* updated_at of its last occurrence in the batch.                         *)
C17_LastDuplicateWins ==
    (res.op = "push" /\ res.status = 200) =>
        \A k \in BatchKeys(res.code, hist.batch) :
            LET e == LastWithId(hist.batch, k[2])
            IN  /\ k \in DOMAIN entries
                /\ JSONparse(entries[k].data) = e
                /\ (entries[k].deleted = 1) = (e._deleted \in {"true", "1"})
                /\ entries[k].updated_at =
                     IF e._ts = None \/ e._ts = Some(0) THEN clock ELSE e._ts[1]

\* a push with the same entry_id twice, with two contents, has been stored
C17_Witness ==
    /\ res.op = "push" /\ res.status = 200
    /\ Len(hist.batch) = 2
    /\ hist.batch[1].id = hist.batch[2].id
    /\ hist.batch[1]._deleted # hist.batch[2]._deleted
    /\ hist.batch[1]._ts # hist.batch[2]._ts

(* C18, as stated: a catch-up pull (one whose since is the server_time of  *)
(* an earlier pull) never returns an entry row dated after the server      *)
(* time.                                                                   *)
CatchUpPull == PullOk /\ res.since # Some(0)

C18_FarEntryNeverReturned ==
    CatchUpPull =>
        \A e \in res.entries :
            entries[<<res.code, e.id[1]>>].updated_at <= clock

(* C18, amended: every catch-up pull returns every entry row of the family *)
(* that is dated after the server time, again at each pull until the       *)
(* server time has reached the row's updated_at.                           *)
C18_FarEntryAlwaysReturned ==
    CatchUpPull =>
        \A k \in EntryKeys(res.code) :
            entries[k].updated_at > clock => k[2] \in PulledIds

\* a catch-up pull has returned an entry pushed with _ts far ahead
C18_Witness ==
    /\ CatchUpPull
    /\ \E e \in res.entries :
         /\ e._ts = Some(FarTs)
         /\ entries[<<res.code, e.id[1]>>].updated_at = FarTs
         /\ FarTs > clock

(* C19: when a push is answered 200, the last_sync of its family and the   *)
(* updated_at of the snapshot of its device are the server time of the     *)
(* push; and in every state the last_sync of a family is at or above the   *)
(* updated_at of each of its device snapshots.                             *)
C19_LastSyncCoversSnapshots ==
    /\ (res.op = "push" /\ res.status = 200) =>
         /\ families[res.code].last_sync = clock
         /\ sync_data[<<res.code, res.device_id>>].updated_at = clock
    /\ \A k \in DOMAIN sync_data :
         families[k[1]].last_sync >= sync_data[k].updated_at

(* C20: a join, a pull or a family-info request, and every request         *)
(* answered 400 or 404, leaves the families, sync_data and entries tables  *)
(* unchanged; and what a pull returns is a function of the tables, its     *)
(* since and the code alone.                                               *)
C20_ReadsWriteNothing ==
    [][/\ (res'.op \in {"join", "pull", "info"} \/ res'.status \in {400, 404})
            => UNCHANGED tables
       /\ (res'.op = "pull" /\ res'.status = 200) =>
            /\ res'.entries =
                 {parsed(entries[k]) :
                    k \in {j \in EntryKeys(res'.code) :
                             entries[j].updated_at > SinceOf(res')}}
            /\ {d.device_id : d \in res'.devices} =
                 {k[2] : k \in {j \in DOMAIN sync_data : j[1] = res'.code}}]_vars

\* a pull of a family with stored rows has been answered a second after
\* the last write
C20_Witness ==
    /\ PullOk
    /\ res.entries # {} /\ res.devices # {}
    /\ families[res.code].last_sync < clock

=============================================================================
